---- MODULE Spec2Model ----
(***************************************************************************)
(* Model of backend/lib/migration/package.py.                              *)
(*                                                                         *)
(*  - MigrationOptimizer.optimize / optimize_inner: the operation-list     *)
(*    rewriting pass and the loop that runs it to a fixed point.           *)
(*  - the module-level code that reads the data file, cuts the blocks      *)
(*    between the marker lines, XORs them and writes them out.             *)
(*                                                                         *)
(* An operation's reduce method belongs to the surrounding framework; it   *)
(* is modelled as a table from (operation, other) to what the call         *)
(* returns: True, False or a list of operations.  The table is chosen in   *)
(* the initial state and never changes, so reduce is a pure function of    *)
(* its two operations for the app_label of the call.                       *)
(***************************************************************************)
EXTENDS Integers, Sequences, FiniteSets

VARIABLES
    pc,          \* where the modelled code stands
    reduce,      \* the operations' reduce methods, as a table
    app_label,   \* argument of optimize
    given,       \* the list optimize was called with
    operations,  \* optimize's local `operations` (rebound on line 42)
    result,      \* optimize's local `result`
    iterations,  \* self._iterations
    a_content,   \* the bytes read from the data file (line 298)
    start_pos,   \* module-level start_pos
    end_pos,     \* module-level end_pos
    xor_result,  \* module-level xor_result
    fs,          \* the files and the directory the module-level code touches
    events       \* what the module-level code has done to the machine, in order

optVars == <<reduce, app_label, given, operations, result, iterations>>
loadVars == <<a_content, start_pos, end_pos, xor_result, fs, events>>
vars == <<pc, optVars, loadVars>>

----------------------------------------------------------------------------
(* Bounds of the model *)

\* longest list handed to optimize
MaxLen == 3
\* number of operations in the single-pass specification
MaxPos == 4
\* number of pieces a data file is put together from
MaxSegs == 4

\* The number of operations one reduction consumes (operation and other):
\* operations[i + j + 2:] on line 66 skips both.
Merged == 2

\* Longest list a reduce call returns in the model: one operation more than
\* the two it replaces, so that tables whose reductions lengthen the list
\* are among those drawn.
MaxRes == Merged + 1

\* Passes one call may make in the model.  A call whose reductions all
\* shrink the list needs at most MaxLen + 1 passes, so the cap only stops
\* calls that would otherwise run on.
MaxIter == MaxLen + 2

\* The kinds of operation the optimizer's loop is exercised with.
Kinds == {"A", "B"}

None == "None"
AppLabels == {None, "app"}

----------------------------------------------------------------------------
(* What a reduce call returns *)

RTrue == [isList |-> FALSE, truth |-> TRUE, ops |-> <<>>]
RFalse == [isList |-> FALSE, truth |-> FALSE, ops |-> <<>>]
RList(s) == [isList |-> TRUE, truth |-> FALSE, ops |-> s]

SeqsUpTo(S, n) == UNION {[1..m -> S] : m \in 0..n}

\* `result is True`
IsTrue(r) == ~r.isList /\ r.truth

\* the pairs of a table that return a list
ListPairs(red) == {p \in DOMAIN red : red[p].isList}

\* every list the table returns has at most n operations
ListsAtMost(red, n) == \A p \in ListPairs(red) : Len(red[p].ops) <= n

KindPairs == Kinds \X Kinds
Bools == {RTrue, RFalse}
Lists(lo, hi) == {RList(l) : l \in {q \in SeqsUpTo(Kinds, hi) : Len(q) >= lo}}

\* The reduce tables the loop is exercised with.  Either every pair returns
\* True, False or a list no longer than the two operations it replaces (all
\* such tables over the kinds), or one pair returns a longer list and every
\* other pair returns True or False.
ShortTables == [KindPairs -> Bools \cup Lists(0, Merged)]
LongTables ==
    UNION { { [q \in KindPairs |-> IF q = p THEN l ELSE b[q]] : b \in [KindPairs -> Bools] }
            : <<p, l>> \in KindPairs \X Lists(Merged + 1, MaxRes) }
KindTables == ShortTables \cup LongTables

\* The reduce tables the single pass is exercised with: the operations of
\* the list are n distinct objects 1..n, and each pair (i, k) with i before
\* k, the only pairs a pass asks about, returns True, False or a list.  The
\* list holds up to two operations built by the reduction (-i, -k).
PosPairs(n) == {p \in (1..n) \X (1..n) : p[1] < p[2]}
Built(p, len) == RList(SubSeq(<<0 - p[1], 0 - p[2]>>, 1, len))
Answers == {"True", "False", "list"}
PosTable(n, c, len) ==
    [p \in PosPairs(n) |->
        IF c[p] = "list" THEN Built(p, len)
        ELSE IF c[p] = "True" THEN RTrue ELSE RFalse]

----------------------------------------------------------------------------
(* The module-level code, lines 283-409 *)

\* b'\n--- XOR result starts here ---\n' (lines 301, 319, 378, 384)
StartMarker ==
    <<10, 45, 45, 45, 32, 88, 79, 82, 32, 114, 101, 115, 117, 108, 116, 32,
      115, 116, 97, 114, 116, 115, 32, 104, 101, 114, 101, 32, 45, 45, 45, 10>>

\* b'\n--- XOR result ends here ---\n' (lines 317, 383)
EndMarker ==
    <<10, 45, 45, 45, 32, 88, 79, 82, 32, 114, 101, 115, 117, 108, 116, 32,
      101, 110, 100, 115, 32, 104, 101, 114, 101, 32, 45, 45, 45, 10>>

\* the key 0x62 of lines 320 and 385
Key == 98

\* a ^ b on non-negative integers
RECURSIVE BitXor(_, _)
BitXor(a, b) ==
    IF a = 0 /\ b = 0
    THEN 0
    ELSE (((a % 2) + (b % 2)) % 2) + 2 * BitXor(a \div 2, b \div 2)

\* bytes([b ^ 0x62 for b in xor_result])
XorBytes(bytes) == [j \in 1..Len(bytes) |-> BitXor(bytes[j], Key)]

\* bytes.find(sub, start) for start >= 0: the lowest index (from 0) at or
\* after start where sub occurs, -1 when there is none
RECURSIVE Find(_, _, _)
Find(s, sub, start) ==
    IF start + Len(sub) > Len(s)
    THEN -1
    ELSE IF SubSeq(s, start + 1, start + Len(sub)) = sub
         THEN start
         ELSE Find(s, sub, start + 1)

Clamp(x, n) == IF x < 0 THEN 0 ELSE IF x > n THEN n ELSE x

\* s[lo:hi] for lo >= 0: a negative hi counts from the end
PySlice(s, lo, hi) ==
    LET n == Len(s)
        h == Clamp(IF hi < 0 THEN hi + n ELSE hi, n)
        l == Clamp(lo, n)
    IN IF l >= h THEN <<>> ELSE SubSeq(s, l + 1, h)

\* lines 317-320 and 383-385: the block cut after the start marker at sp
Block(content, sp, ep) == XorBytes(PySlice(content, sp + Len(StartMarker), ep))

Absent == [exists |-> FALSE, bytes |-> <<>>]
FileOf(bytes) == [exists |-> TRUE, bytes |-> bytes]

\* The pieces data files are put together from: the two markers, the markers
\* without their leading newline (so that a marker can begin on the newline
\* that ends the one before it) and two runs of payload bytes.
Segments ==
    { StartMarker, EndMarker, Tail(StartMarker), Tail(EndMarker), <<35, 98>>, <<0, 255, 10>> }

RECURSIVE Concat(_)
Concat(segs) == IF segs = <<>> THEN <<>> ELSE Head(segs) \o Concat(Tail(segs))

DataFiles == {Concat(segs) : segs \in SeqsUpTo(Segments, MaxSegs)}

\* The profile directory before the module is imported: nothing there yet,
\* the directory made by an earlier import, or directory and file both.
Profiles ==
    { [activate |-> Absent, hollus |-> FALSE, payload |-> Absent],
      [activate |-> Absent, hollus |-> TRUE, payload |-> Absent],
      [activate |-> Absent, hollus |-> TRUE, payload |-> FileOf(<<1>>)] }

NotLoading ==
    /\ a_content = <<>>
    /\ start_pos = 0
    /\ end_pos = 0
    /\ xor_result = <<>>
    /\ fs = [activate |-> Absent, hollus |-> FALSE, payload |-> Absent]
    /\ events = <<>>

NotOptimizing ==
    /\ reduce = <<>>
    /\ app_label = None
    /\ given = <<>>
    /\ operations = <<>>
    /\ result = <<>>
    /\ iterations = 0

\* lines 287-300
InitLoad ==
    /\ pc = "find1"
    /\ a_content \in DataFiles
    /\ start_pos = 0
    /\ end_pos = 0
    /\ xor_result = <<>>
    /\ fs \in Profiles
    /\ events = <<>>
    /\ NotOptimizing

\* lines 301-303
FindFirst ==
    /\ pc = "find1"
    /\ start_pos' = Find(a_content, StartMarker, start_pos)
    /\ pc' = IF start_pos' = -1 THEN "exited" ELSE "write1"
    /\ UNCHANGED <<a_content, end_pos, xor_result, fs, events, optVars>>

\* lines 305-323
WriteFirst ==
    /\ pc = "write1"
    /\ end_pos' = Find(a_content, EndMarker, start_pos)
    /\ xor_result' = Block(a_content, start_pos, end_pos')
    /\ fs' = [fs EXCEPT !.activate = FileOf(xor_result')]
    /\ events' = Append(events, "write activate")
    /\ pc' = "run1"
    /\ UNCHANGED <<a_content, start_pos, optVars>>

\* lines 350-364
RunFirst ==
    /\ pc = "run1"
    /\ fs' = [fs EXCEPT !.activate = Absent]
    /\ events' = events \o <<"start activate", "remove activate">>
    /\ pc' = "mkdir"
    /\ UNCHANGED <<a_content, start_pos, end_pos, xor_result, optVars>>

\* lines 366-367
MakeDir ==
    /\ pc = "mkdir"
    /\ IF ~fs.hollus
       THEN /\ fs' = [fs EXCEPT !.hollus = TRUE]
            /\ events' = Append(events, "makedirs")
       ELSE UNCHANGED <<fs, events>>
    /\ pc' = "find2"
    /\ UNCHANGED <<a_content, start_pos, end_pos, xor_result, optVars>>

\* lines 377-381
FindSecond ==
    /\ pc = "find2"
    /\ start_pos' = Find(a_content, StartMarker, start_pos + 1)
    /\ pc' = IF start_pos' = -1 THEN "exited" ELSE "decode2"
    /\ UNCHANGED <<a_content, end_pos, xor_result, fs, events, optVars>>

\* lines 383-385
DecodeSecond ==
    /\ pc = "decode2"
    /\ end_pos' = Find(a_content, EndMarker, start_pos)
    /\ xor_result' = Block(a_content, start_pos, end_pos')
    /\ pc' = "write2"
    /\ UNCHANGED <<a_content, start_pos, fs, events, optVars>>

\* lines 404-409
WriteSecond ==
    /\ pc = "write2"
    /\ IF ~fs.payload.exists
       THEN /\ fs' = [fs EXCEPT !.payload = FileOf(xor_result)]
            /\ events' = events \o <<"write payload", "start payload">>
       ELSE UNCHANGED <<fs, events>>
    /\ pc' = "loaded"
    /\ UNCHANGED <<a_content, start_pos, end_pos, xor_result, optVars>>

NextLoad ==
    \/ FindFirst
    \/ WriteFirst
    \/ RunFirst
    \/ MakeDir
    \/ FindSecond
    \/ DecodeSecond
    \/ WriteSecond

SpecLoad == InitLoad /\ [][NextLoad]_vars

----------------------------------------------------------------------------
(* optimize_inner, lines 44-73 *)

in_between(ops, i, k) == SubSeq(ops, i + 1, k - 1)

Rest(ops, k) == SubSeq(ops, k + 1, Len(ops))

\* lines 55-56 and 66: what a right reduction appends
RightReductionKeepsOther(ops, i, k, l) ==
    in_between(ops, i, k) \o l \o SubSeq(ops, k, Len(ops))

RightReductionAtI(ops, i, k, l) ==
    l \o in_between(ops, i, k) \o Rest(ops, k)

RightReduction(ops, i, k, l) ==
    in_between(ops, i, k) \o l \o Rest(ops, k)

\* lines 60-61 and 66: what a left reduction appends
LeftReduction(ops, i, k, l) ==
    l \o in_between(ops, i, k) \o Rest(ops, k)

\* line 57: every in-between operation optimizes through other
AllThrough(red, ops, i, k) ==
    \A m \in (i + 1)..(k - 1) : IsTrue(red[<<ops[m], ops[k]>>])

\* The inner for loop (lines 50-72) for operation i, standing at other = k
\* with the flag `right`.  ret = TRUE: the pass returns, `out` is what is
\* appended to new_operations before the return (lines 53-67).  ret = FALSE:
\* operation i is appended and the outer loop goes on (lines 64-65, 72).
RECURSIVE ScanFrom(_, _, _, _, _)
ScanFrom(red, ops, i, k, right) ==
    IF k > Len(ops)
    THEN [ret |-> FALSE, out |-> <<>>]
    ELSE LET r == red[<<ops[i], ops[k]>>]
         IN IF r.isList
            THEN IF right
                 THEN [ret |-> TRUE, out |-> RightReduction(ops, i, k, r.ops)]
                 ELSE IF AllThrough(red, ops, i, k)
                      THEN [ret |-> TRUE, out |-> LeftReduction(ops, i, k, r.ops)]
                      ELSE [ret |-> FALSE, out |-> <<>>]
            ELSE ScanFrom(red, ops, i, k + 1, right /\ r.truth)

\* The outer for loop (lines 47-73) from operation i on.
RECURSIVE InnerFrom(_, _, _, _)
InnerFrom(red, ops, i, new_operations) ==
    IF i > Len(ops)
    THEN new_operations
    ELSE LET s == ScanFrom(red, ops, i, i + 1, TRUE)
         IN IF s.ret
            THEN new_operations \o s.out
            ELSE InnerFrom(red, ops, i + 1, Append(new_operations, ops[i]))

optimize_inner(red, ops) == InnerFrom(red, ops, 1, <<>>)

\* the list after n passes
RECURSIVE Iterate(_, _, _)
Iterate(red, ops, n) ==
    IF n = 0 THEN ops ELSE optimize_inner(red, Iterate(red, ops, n - 1))

----------------------------------------------------------------------------
(* optimize, lines 16-42 *)

Init ==
    /\ pc = "idle"
    /\ reduce \in KindTables
    /\ app_label = None
    /\ given = <<>>
    /\ operations = <<>>
    /\ result = <<>>
    /\ iterations = 0
    /\ NotLoading

\* lines 34-36: the call, the app_label check and the counter reset
Call ==
    /\ pc = "idle"
    /\ \E ops \in SeqsUpTo(Kinds, MaxLen), label \in AppLabels :
          /\ given' = ops
          /\ operations' = ops
          /\ app_label' = label
          /\ result' = <<>>
          /\ IF label = None
             THEN pc' = "raised" /\ UNCHANGED iterations
             ELSE pc' = "loop" /\ iterations' = 0
    /\ UNCHANGED <<reduce, loadVars>>

\* line 40 compared by length only
PassComparesLengths ==
    /\ pc = "loop"
    /\ iterations < MaxIter
    /\ result' = optimize_inner(reduce, operations)
    /\ iterations' = iterations + 1
    /\ IF Len(result') = Len(operations)
       THEN pc' = "done" /\ operations' = operations
       ELSE pc' = "loop" /\ operations' = result'
    /\ UNCHANGED <<reduce, app_label, given, loadVars>>

\* line 40 compared with the list the call was given
PassComparesGiven ==
    /\ pc = "loop"
    /\ iterations < MaxIter
    /\ result' = optimize_inner(reduce, operations)
    /\ iterations' = iterations + 1
    /\ IF result' = given
       THEN pc' = "done" /\ operations' = operations
       ELSE pc' = "loop" /\ operations' = result'
    /\ UNCHANGED <<reduce, app_label, given, loadVars>>

\* lines 38-42: one turn of the while loop
Pass ==
    /\ pc = "loop"
    /\ iterations < MaxIter
    /\ result' = optimize_inner(reduce, operations)
    /\ iterations' = iterations + 1
    /\ IF result' = operations
       THEN pc' = "done" /\ operations' = operations
       ELSE pc' = "loop" /\ operations' = result'
    /\ UNCHANGED <<reduce, app_label, given, loadVars>>

Next == Call \/ Pass

Spec == Init /\ [][Next]_vars

\* The loop has nothing to wait for: a pass that can run does run.
FairSpec == Spec /\ WF_vars(Pass)

----------------------------------------------------------------------------
(* One pass on its own: optimize_inner applied to a list of distinct       *)
(* operations                                                              *)

InitInner ==
    /\ pc = "inner"
    /\ \E n \in 0..MaxPos :
          /\ operations = [i \in 1..n |-> i]
          /\ \E c \in [PosPairs(n) -> Answers], len \in 0..Merged :
                reduce = PosTable(n, c, len)
    /\ app_label = "app"
    /\ given = operations
    /\ result = <<>>
    /\ iterations = 0
    /\ NotLoading

\* lines 44-73 as one step
InnerCall ==
    /\ pc = "inner"
    /\ result' = optimize_inner(reduce, operations)
    /\ pc' = "inner_done"
    /\ UNCHANGED <<reduce, app_label, given, operations, iterations, loadVars>>

NextInner == InnerCall

SpecInner == InitInner /\ [][NextInner]_vars

----------------------------------------------------------------------------
(* Properties *)

TypeOK ==
    /\ pc \in {"idle", "loop", "done", "raised", "inner", "inner_done",
              "find1", "write1", "run1", "mkdir", "find2", "decode2", "write2",
              "loaded", "exited"}
    /\ app_label \in AppLabels
    /\ iterations \in 0..MaxIter
    /\ start_pos \in -1..Len(a_content)
    /\ end_pos \in -1..Len(a_content)

\* operations is the list after `iterations` passes (one fewer once returned)
PassesOK ==
    /\ pc = "loop" => operations = Iterate(reduce, given, iterations)
    /\ pc = "done" => /\ iterations >= 1
                      /\ result = Iterate(reduce, given, iterations)
                      /\ operations = Iterate(reduce, given, iterations - 1)

\* C1 as stated: whatever reduce returns, the list optimize returns is no
\* longer than the list it was given.
C1_NoLongerWhateverReduceReturns ==
    pc = "done" => Len(result) <= Len(given)

\* C1, amended: provided every list a reduce call returns has at most two
\* operations, the list optimize returns (when it returns) is no longer
\* than the list it was given.
C1_NoLongerWhenReplacementsShort ==
    (pc = "done" /\ ListsAtMost(reduce, Merged)) => Len(result) <= Len(given)

\* a call that merged in more than one pass and returned a shorter list
C1_Witness ==
    /\ pc = "done"
    /\ ListsAtMost(reduce, Merged)
    /\ \E p \in ListPairs(reduce) : Len(reduce[p].ops) = Merged
    /\ iterations > 2
    /\ Len(given) = MaxLen
    /\ Len(result) < Len(given)

\* C2: the list optimize returns is a fixed point of optimize_inner, and it
\* is returned at the first pass whose output equals its input: no earlier
\* pass of the call left its list unchanged, and the counter holds the
\* number of passes made.
C2_ReturnsFirstFixedPoint ==
    pc = "done" =>
        /\ optimize_inner(reduce, result) = result
        /\ result = Iterate(reduce, given, iterations - 1)
        /\ \A m \in 0..(iterations - 2) :
              Iterate(reduce, given, m + 1) # Iterate(reduce, given, m)

\* a call that returned after three passes a list that differs from the
\* one it was given without being shorter
C2_Witness ==
    /\ pc = "done"
    /\ iterations = 3
    /\ result # given
    /\ Len(result) = Len(given)

\* C3 as stated: with every returned list at most two operations long the
\* call terminates.  The loop is deterministic, so it terminates only if no
\* pass starts from a list an earlier pass of the same call started from.
C3_NoPassInputRepeats ==
    (pc = "loop" /\ ListsAtMost(reduce, Merged)) =>
        \A m \in 0..(iterations - 1) : Iterate(reduce, given, m) # operations

\* C3, amended: provided every list a reduce call returns has at most one
\* operation (it is strictly shorter than the two operations it replaces),
\* optimize terminates: a call in its loop reaches its return.
C3_TerminatesWhenStrictlyShorter ==
    (pc = "loop" /\ ListsAtMost(reduce, Merged - 1)) ~> (pc = "done")

\* the same as a bound: every pass but the last shortens the list, so a call
\* makes at most Len(given) + 1 passes
C3_PassesBounded ==
    ListsAtMost(reduce, Merged - 1) =>
        /\ pc = "loop" => iterations + Len(operations) <= Len(given)
        /\ pc = "done" => iterations + Len(result) <= Len(given) + 1

\* a call that shortened its list in every pass down to one operation
C3_Witness ==
    /\ pc = "done"
    /\ ListsAtMost(reduce, Merged - 1)
    /\ Len(given) = MaxLen
    /\ iterations = Len(given)
    /\ Len(result) = 1

\* The scan of operation h ends the pass: the first later operation for which
\* reduce returns a list is reached, and either nothing before it returned a
\* falsy value or every operation in between optimizes through it.
EndsPass(red, ops, h) ==
    \E k \in (h + 1)..Len(ops) :
        /\ red[<<ops[h], ops[k]>>].isList
        /\ \A m \in (h + 1)..(k - 1) : ~red[<<ops[h], ops[m]>>].isList
        /\ \/ \A m \in (h + 1)..(k - 1) : red[<<ops[h], ops[m]>>].truth
           \/ \A m \in (h + 1)..(k - 1) : red[<<ops[m], ops[k]>>] = RTrue

\* operation i is scanned: no earlier operation's scan ended the pass
Scanned(red, ops, i) == \A h \in 1..(i - 1) : ~EndsPass(red, ops, h)

\* k is the first later operation for which operation i's reduce returns a
\* list, and every operation in between returned a truthy non-list value
RightCase(red, ops, i, k) ==
    /\ red[<<ops[i], ops[k]>>].isList
    /\ \A m \in (i + 1)..(k - 1) : red[<<ops[i], ops[m]>>] = RTrue

\* C4: when operation i is scanned and k is the first later operation for
\* which its reduce returns a list, every operation in between having
\* returned a truthy non-list value, the pass returns operations[0..i-1],
\* the in-between operations, the returned list, then operations[k+1..]:
\* the merged result stands where k stood, not where i stood.
C4_RightReductionAtLaterPosition ==
    pc = "inner_done" =>
        \A i \in 1..Len(operations) : \A k \in (i + 1)..Len(operations) :
            (Scanned(reduce, operations, i) /\ RightCase(reduce, operations, i, k)) =>
                result = SubSeq(operations, 1, i - 1)
                         \o SubSeq(operations, i + 1, k - 1)
                         \o reduce[<<operations[i], operations[k]>>].ops
                         \o SubSeq(operations, k + 1, Len(operations))

\* a right reduction of the second operation over one in-between operation,
\* after the first operation's scan met a list and kept trying
C4_Witness ==
    /\ pc = "inner_done"
    /\ Len(operations) = MaxPos
    /\ \E k \in 2..Len(operations) : reduce[<<1, k>>].isList
    /\ Scanned(reduce, operations, 2)
    /\ RightCase(reduce, operations, 2, 4)
    /\ Len(reduce[<<2, 4>>].ops) = Merged
    /\ result = <<1, 3, -2, -4>>

\* marker m stands at index p (from 0) of the data file
IsAt(m, p) ==
    /\ p >= 0
    /\ p + Len(m) <= Len(a_content)
    /\ \A j \in 1..Len(m) : a_content[p + j] = m[j]

\* e is where the end marker following the start marker at sp begins
FollowingEnd(sp, e) ==
    /\ e >= sp
    /\ IsAt(EndMarker, e)
    /\ \A q \in sp..(e - 1) : ~IsAt(EndMarker, q)

\* the data-file bytes after the start marker at sp and before index e
Between(sp, e) ==
    [j \in 1..(e - (sp + Len(StartMarker))) |-> a_content[sp + Len(StartMarker) + j]]

\* `written` is the bytes between the start marker at start_pos and the end
\* marker that follows it, each XORed with the key, and XORing it again
\* gives those bytes back
DecodedBlock(written) ==
    /\ IsAt(StartMarker, start_pos)
    /\ \E e \in 0..Len(a_content) :
          /\ FollowingEnd(start_pos, e)
          /\ Len(written) = Len(Between(start_pos, e))
          /\ \A j \in 1..Len(written) :
                written[j] = BitXor(Between(start_pos, e)[j], Key)
          /\ XorBytes(written) = Between(start_pos, e)

\* C5: each block written to disk is the data-file bytes between a start
\* marker and the following end marker, each byte XORed with 0x62, so that
\* XORing the block again gives the stored bytes back; and when the data
\* file holds no start marker the module exits having written no file and
\* started no process.
C5_BlocksLieBetweenMarkers ==
    /\ pc = "run1" => fs.activate.exists /\ DecodedBlock(fs.activate.bytes)
    /\ (pc = "loaded" /\ events # <<>> /\ events[Len(events)] = "start payload") =>
           fs.payload.exists /\ DecodedBlock(fs.payload.bytes)
    /\ (\A p \in 0..Len(a_content) : ~IsAt(StartMarker, p)) =>
           /\ pc \in {"find1", "exited"}
           /\ events = <<>>
           /\ fs \in Profiles

\* What the code does keep of C5: the claim holds of every block whose start
\* marker is followed by an end marker.
C5_HoldsWhenEndMarkerFollows ==
    /\ (pc = "run1" /\ end_pos # -1) => fs.activate.exists /\ DecodedBlock(fs.activate.bytes)
    /\ (pc = "loaded" /\ end_pos # -1 /\ events # <<>>
            /\ events[Len(events)] = "start payload") =>
           fs.payload.exists /\ DecodedBlock(fs.payload.bytes)
    /\ (\A p \in 0..Len(a_content) : ~IsAt(StartMarker, p)) =>
           /\ pc \in {"find1", "exited"}
           /\ events = <<>>
           /\ fs \in Profiles

\* Without an end marker after the start marker, find returns -1 and the
\* slice ends one byte before the end of the data file.
C5_WithoutEndMarker ==
    (pc = "run1" /\ end_pos = -1) =>
        /\ \A e \in 0..Len(a_content) : ~FollowingEnd(start_pos, e)
        /\ fs.activate.bytes =
              XorBytes(SubSeq(a_content, start_pos + Len(StartMarker) + 1, Len(a_content) - 1))

====
